---- MODULE Spec2Model ----
(***************************************************************************)
(* Mini-Motion: the mongoose connection cache (lib/db.ts, connectToDB) and *)
(* the video route handler (POST /api/video) that registers an uploaded    *)
(* asset through the Video model.                                          *)
(*                                                                         *)
(* connectToDB is an async function: its body up to the `await` runs       *)
(* synchronously in the job that calls it, the rest runs as a promise      *)
(* reaction job.  Jobs run one at a time, in FIFO order (the microtask     *)
(* queue); the reactions registered on a promise are enqueued, in          *)
(* registration order, when the promise settles, and at once when the      *)
(* promise is already settled.                                             *)
(***************************************************************************)
EXTENDS Integers, Sequences, FiniteSets, TLC

\* ---------------------------------------------------------------- bounds
NumCallers == 4
MaxVideos == 2
MaxAttempts == 2
MaxProgress == 1

Callers == 1..NumCallers

\* ------------------------------------------------------------- constants
NULL == "null"
UNDEFINED == "undefined"
CONNECTION == "mongoose.connection"

VARIABLES
    conn,       \* cached.conn: NULL or the resolved connection
    promise,    \* cached.promise: 0 (null) or the id of the attempt it holds
    status,     \* status[a]: "pending" | "fulfilled" | "rejected", one per mongoose.connect made
    waiters,    \* waiters[a]: callers whose `await` registered a reaction on attempt a while pending
    jobs,       \* the job queue: <<kind, caller>>, kind "call" or "resume"
    pc,         \* pc[c]: "idle" | "scheduled" | "awaiting" | "resumable" | "returned" | "threw"
    awaited,    \* awaited[c]: the attempt caller c awaits or awaited (0: none)
    ret,        \* ret[c]: the value connectToDB returned to c
    started,    \* started[c]: TRUE when c's call made the mongoose.connect of awaited[c]
    early,      \* early[c]: c's call ran before the first attempt settled
    afterFail   \* TRUE from the first catch block run for a failed attempt until the next call runs

cacheVars == <<conn, promise, status, waiters, jobs, pc, awaited, ret, started, early, afterFail>>

VARIABLES
    hpc,        \* the POST handler: "idle" | "connecting" | "responded"
    session,    \* what getServerSession() resolved to: NULL or a session
    body,       \* what request.json() resolves to
    response,   \* the status of the response (0: none yet)
    written,    \* the document this request persisted: <<>> or <<doc>>
    createError,\* how Video.create ended: "none" | "validation" | "io"
    store       \* the videos collection, in insertion order

handlerVars == <<hpc, session, body, response, written, createError, store>>

VARIABLES
    gpc,        \* the GET handler: "idle" | "connecting" | "responded"
    gsession,   \* the identity the GET request comes with (the handler never reads it)
    gresponse,  \* the response of the GET handler: [status, kind, videos]
    gfail       \* what failed during the GET: "none" | "connect" | "find"

listVars == <<gpc, gsession, gresponse, gfail>>

VARIABLES
    users,      \* the users collection: documents [email, password (hash)]
    rpc,        \* the register handler: "idle" | "connecting" | "responded"
    rinput,     \* what request.json() gave it: [email, password]
    rfound,     \* whether User.findOne found a user with the email
    rfail,      \* what failed in it: "none" | "connect" | "find" | "create"
    rresponse,  \* the body of its response: [status, kind]
    apc,        \* authorize: "idle" | "connecting" | "done"
    via,        \* how authorize was reached: "direct" | "form"
    lform,      \* the state of the login form: [email, password]
    acreds,     \* the credentials authorize received: [email, password]
    afail,      \* what failed under authorize: "none" | "connect" | "find"
    aresult     \* what authorize ended with: [kind, email, message]

authVars == <<users, rpc, rinput, rfound, rfail, rresponse, apc, via, lform, acreds, afail, aresult>>

VARIABLES
    fileType,   \* the fileType prop of FileUpload: UNDEFINED, "image" or "video"
    uploading,  \* its uploading state
    uerror,     \* its error state
    upc,        \* handleFileChange: "idle" | "fetching" | "uploading" | "finished"
    ufile,      \* the file of the last change event: None or Some(file)
    ustarted,   \* whether the last change event got past validation
    uidentity,  \* the identity the browser's request carries: NULL or a token
    authData,   \* what the authorization endpoint answered: [kind, ...]
    signed,     \* whether the signing collaborator was called for this request
    uoutcome,   \* how the attempt ended: "none" | "ok" | "failed"
    reported,   \* the percentages handed to the onProgress prop in this attempt
    succeeded   \* whether onSuccess was called in this attempt

uploadVars == <<fileType, uploading, uerror, upc, ufile, ustarted, uidentity, authData,
                signed, uoutcome, reported, succeeded>>

\* ------------------------------------------------------------ lib/db.ts
\* line 10: cached = global.mongoose = { conn: null, promise: null }
CacheInit ==
    /\ conn = NULL
    /\ promise = 0
    /\ status = <<>>
    /\ waiters = <<>>
    /\ jobs = <<>>
    /\ pc = [c \in Callers |-> "idle"]
    /\ awaited = [c \in Callers |-> 0]
    /\ ret = [c \in Callers |-> NULL]
    /\ started = [c \in Callers |-> FALSE]
    /\ early = [c \in Callers |-> FALSE]
    /\ afterFail = FALSE

\* the attempts whose promise has not settled yet
InFlight == {a \in 1..Len(status) : status[a] = "pending"}

\* the early return of line 14 left out
HasConnNever == FALSE

\* line 14: if (cached.conn)
HasConn == conn # NULL

\* the guard of line 17 left out: every call without a handle connects
NoPromiseAlways == TRUE

\* line 17: if (!cached.promise)
NoPromise == promise = 0

\* no other waiter of the attempt c awaited has run its catch block yet
FirstToHandle(c) ==
    \A d \in Callers : ~(pc[d] = "threw" /\ awaited[d] = awaited[c])

\* lines 25-27: catch (error) { cached.promise = null; throw error; }
OnRejected(c) ==
    /\ promise' = 0
    /\ pc' = [pc EXCEPT ![c] = "threw"]
    /\ afterFail' = (afterFail \/ FirstToHandle(c))
    /\ UNCHANGED <<conn, ret>>

\* line 24 after the await, and the end of the function body (no return statement)
OnFulfilled(c) ==
    /\ conn' = CONNECTION
    /\ pc' = [pc EXCEPT ![c] = "returned"]
    /\ ret' = [ret EXCEPT ![c] = UNDEFINED]
    /\ UNCHANGED <<promise, afterFail>>

\* lines 14-24, the synchronous part of a call: up to the await
ConnectToDBCall(c) ==
    /\ early' = [early EXCEPT ![c] = (status = <<>> \/ status[1] = "pending")]
    /\ afterFail' = FALSE
    /\ IF HasConn
       THEN /\ pc' = [pc EXCEPT ![c] = "returned"]
            /\ ret' = [ret EXCEPT ![c] = conn]
            /\ UNCHANGED <<conn, promise, status, waiters, awaited, started>>
            /\ jobs' = Tail(jobs)
       ELSE LET fresh == NoPromise
                p == IF fresh THEN Len(status) + 1 ELSE promise
                st == IF fresh THEN Append(status, "pending") ELSE status
                ws == IF fresh THEN Append(waiters, <<>>) ELSE waiters
            IN /\ status' = st
               /\ promise' = p
               /\ awaited' = [awaited EXCEPT ![c] = p]
               /\ started' = [started EXCEPT ![c] = fresh]
               /\ IF st[p] = "pending"
                  THEN /\ waiters' = [ws EXCEPT ![p] = Append(@, c)]
                       /\ pc' = [pc EXCEPT ![c] = "awaiting"]
                       /\ jobs' = Tail(jobs)
                  ELSE /\ waiters' = ws
                       /\ pc' = [pc EXCEPT ![c] = "resumable"]
                       /\ jobs' = Append(Tail(jobs), <<"resume", c>>)
               /\ UNCHANGED <<conn, ret>>

\* lines 23-28, the reaction job of the await
ConnectToDBResume(c) ==
    /\ jobs' = Tail(jobs)
    /\ IF status[awaited[c]] = "fulfilled" THEN OnFulfilled(c) ELSE OnRejected(c)
    /\ UNCHANGED <<status, waiters, awaited, started, early>>

RECURSIVE ResumeJobs(_)
ResumeJobs(ws) ==
    IF ws = <<>> THEN <<>> ELSE <<<<"resume", Head(ws)>>>> \o ResumeJobs(Tail(ws))

\* ------------------------------------------------------------- actions
\* some job of the program is about to call connectToDB()
Arrive(c) ==
    /\ pc[c] = "idle"
    /\ pc' = [pc EXCEPT ![c] = "scheduled"]
    /\ jobs' = Append(jobs, <<"call", c>>)
    /\ UNCHANGED <<conn, promise, status, waiters, awaited, ret, started, early, afterFail>>

\* the job at the head of the queue runs the synchronous part of a call
RunCall ==
    /\ jobs # <<>>
    /\ Head(jobs)[1] = "call"
    /\ ConnectToDBCall(Head(jobs)[2])

\* the job at the head of the queue is the reaction of an await
RunResume ==
    /\ jobs # <<>>
    /\ Head(jobs)[1] = "resume"
    /\ ConnectToDBResume(Head(jobs)[2])

\* lines 19-21: the promise of mongoose.connect(...).then(...) settles
Settle(a, outcome) ==
    /\ status[a] = "pending"
    /\ status' = [status EXCEPT ![a] = outcome]
    /\ jobs' = jobs \o ResumeJobs(waiters[a])
    /\ pc' = [c \in Callers |->
                IF pc[c] = "awaiting" /\ awaited[c] = a THEN "resumable" ELSE pc[c]]
    /\ UNCHANGED <<conn, promise, waiters, awaited, ret, started, early, afterFail>>

ConnectSucceeds == \E a \in InFlight : Settle(a, "fulfilled")
ConnectFails == \E a \in InFlight : Settle(a, "rejected")

\* ------------------------------------------------------ models/Video.ts
\* an optional value: absent, or present with value x
None == <<>>
Some(x) == <<x>>

\* the quality bounds of the schema
MinQuality == 1
MaxQuality == 100

\* the values a request may carry
Strings == {UNDEFINED, "", "x"}
Qualities == {0, 1, 100, 101, 150}
Transformations ==
    {None} \cup {Some([height |-> 720, width |-> 1280, quality |-> q]) :
                    q \in {None} \cup {Some(n) : n \in Qualities}}
Bodies ==
    [title : Strings, description : Strings, videoURL : Strings, thumbnailURL : Strings,
     controls : {None, Some(FALSE)}, transformations : Transformations]
NoBody ==
    [title |-> UNDEFINED, description |-> UNDEFINED, videoURL |-> UNDEFINED,
     thumbnailURL |-> UNDEFINED, controls |-> None, transformations |-> None]

\* mongoose's `required: true` on a String path: a non-empty string
Required(v) == v # UNDEFINED /\ v # ""

\* the range check of the quality path left out
QualityUnchecked(q) == TRUE

\* quality: { type: Number, min: 1, max: 100 }
QualityInRange(q) == q >= MinQuality /\ q <= MaxQuality

\* the validation of a document against videoSchema
SchemaValid(d) ==
    /\ Required(d.title)
    /\ Required(d.description)
    /\ Required(d.videoURL)
    /\ Required(d.thumbnailURL)
    /\ d.quality # None => QualityInRange(d.quality[1])

\* --------------------------------------------- app/api/video/route.ts POST
\* the caller of connectToDB that is the POST handler
H == 1

\* the session check left out
UnauthorizedNever(sess) == FALSE

\* if (!session)
Unauthorized(sess) == sess = NULL

\* !v of a string or an absent value
Falsy(v) == v = UNDEFINED \/ v = ""

\* the missing-fields condition of the handler
MissingFields(b) ==
    Falsy(b.title) \/ Falsy(b.thumbnailURL) \/ Falsy(b.videoURL) \/ Falsy(b.thumbnailURL)

\* body?.transformations?.quality ?? 100
QualityOf(b) ==
    IF b.transformations # None /\ b.transformations[1].quality # None
    THEN b.transformations[1].quality
    ELSE Some(100)

\* the transformations spread from the body when it has them
VideoDataKeepsDims(b) ==
    [title |-> b.title, description |-> b.description, videoURL |-> b.videoURL,
     thumbnailURL |-> b.thumbnailURL,
     controls |-> IF b.controls = None THEN TRUE ELSE b.controls[1],
     height |-> IF b.transformations = None THEN 1920 ELSE b.transformations[1].height,
     width |-> IF b.transformations = None THEN 1080 ELSE b.transformations[1].width,
     quality |-> QualityOf(b)]

\* const videoData: TVideo = { ...body, controls, transformations }
VideoData(b) ==
    [title |-> b.title, description |-> b.description, videoURL |-> b.videoURL,
     thumbnailURL |-> b.thumbnailURL,
     controls |-> IF b.controls = None THEN TRUE ELSE b.controls[1],
     height |-> 1920,
     width |-> 1080,
     quality |-> QualityOf(b)]

HandlerInit ==
    /\ hpc = "idle"
    /\ session = NULL
    /\ body = NoBody
    /\ response = 0
    /\ written = None
    /\ createError = "none"
    /\ store = <<>>

Respond(code) ==
    /\ hpc' = "responded"
    /\ response' = code

\* a request arrives; getServerSession() resolves; without a session the
\* handler answers 401, with one its next job calls connectToDB()
PostBegin(sess, b) ==
    /\ hpc = "idle"
    /\ Len(store) < MaxVideos
    /\ Len(status) < MaxAttempts
    /\ session' = sess
    /\ body' = b
    /\ UNCHANGED <<written, createError, store>>
    /\ IF Unauthorized(sess)
       THEN /\ Respond(401)
            /\ UNCHANGED cacheVars
       ELSE /\ hpc' = "connecting"
            /\ UNCHANGED response
            /\ Arrive(H)

\* await connectToDB() threw: the catch block answers 500
PostConnectFailed ==
    /\ hpc = "connecting"
    /\ pc[H] = "threw"
    /\ Respond(500)
    /\ UNCHANGED <<session, body, written, createError, store>>
    /\ UNCHANGED cacheVars

\* await connectToDB() returned: the body is read and checked, the document
\* is built and Video.create validates and inserts it
PostConnected(ioOk) ==
    /\ hpc = "connecting"
    /\ pc[H] = "returned"
    /\ UNCHANGED <<session, body>>
    /\ UNCHANGED cacheVars
    /\ IF MissingFields(body)
       THEN /\ Respond(400)
            /\ UNCHANGED <<written, createError, store>>
       ELSE LET d == VideoData(body) IN
            IF ~SchemaValid(d)
            THEN /\ Respond(500)
                 /\ createError' = "validation"
                 /\ UNCHANGED <<written, store>>
            ELSE IF ~ioOk
            THEN /\ Respond(500)
                 /\ createError' = "io"
                 /\ UNCHANGED <<written, store>>
            ELSE LET doc == [title |-> d.title, description |-> d.description,
                             videoURL |-> d.videoURL, thumbnailURL |-> d.thumbnailURL,
                             controls |-> d.controls, height |-> d.height,
                             width |-> d.width, quality |-> d.quality[1],
                             createdAt |-> Len(store) + 1] IN
                 /\ Respond(200)
                 /\ store' = Append(store, doc)
                 /\ written' = Some(doc)
                 /\ UNCHANGED createError

\* the response is sent; the handler is ready for the next request
PostEnd ==
    /\ hpc = "responded"
    /\ hpc' = "idle"
    /\ session' = NULL
    /\ body' = NoBody
    /\ response' = 0
    /\ written' = None
    /\ createError' = "none"
    /\ pc' = [pc EXCEPT ![H] = "idle"]
    /\ awaited' = [awaited EXCEPT ![H] = 0]
    /\ ret' = [ret EXCEPT ![H] = NULL]
    /\ started' = [started EXCEPT ![H] = FALSE]
    /\ early' = [early EXCEPT ![H] = FALSE]
    /\ UNCHANGED <<conn, promise, status, waiters, jobs, afterFail, store>>

\* ---------------------------------------------- app/api/video/route.ts GET
\* the caller of connectToDB that is the GET handler
G == 2

\* the field the GET handler sorts on
SortField == "cretedAt"

\* the value of field f of a document: None when the document has no such field
FieldOf(doc, f) == IF f \in DOMAIN doc THEN Some(doc[f]) ELSE None

\* the orders of the collection
Orders(docs) ==
    {s \in [1..Len(docs) -> {docs[i] : i \in 1..Len(docs)}] :
        \A i, j \in 1..Len(docs) : i # j => s[i] # s[j]}

\* -1 on field f: a greater value comes first, an absent value last, and
\* documents that tie on f come in any order
Descending(s, f) ==
    \A i, j \in 1..Len(s) :
        i < j =>
           LET a == FieldOf(s[i], f)
               b == FieldOf(s[j], f)
           IN b = None \/ (a # None /\ a[1] >= b[1])

\* Video.find({}).sort({ cretedAt: -1 }).lean()
FindSorted(docs) == {s \in Orders(docs) : Descending(s, SortField)}

\* an empty listing answered as not found
ListResponseNotFound(videos) ==
    IF videos = <<>>
    THEN [status |-> 404, kind |-> "error", videos |-> <<>>]
    ELSE [status |-> 200, kind |-> "list", videos |-> videos]

\* NextResponse.json([], { status: 200 }) and NextResponse.json(videos)
ListResponse(videos) ==
    IF videos = <<>>
    THEN [status |-> 200, kind |-> "list", videos |-> <<>>]
    ELSE [status |-> 200, kind |-> "list", videos |-> videos]

\* the catch block: NextResponse.json({ error }, { status: 200 })
ListErrorResponse == [status |-> 200, kind |-> "error", videos |-> <<>>]

NoResponse == [status |-> 0, kind |-> "none", videos |-> <<>>]

ListInit ==
    /\ gpc = "idle"
    /\ gsession = NULL
    /\ gresponse = NoResponse
    /\ gfail = "none"

\* a GET request arrives, with or without a session: the handler calls
\* connectToDB() first thing
GetBegin(sess) ==
    /\ gpc = "idle"
    /\ hpc = "idle"
    /\ Len(status) < MaxAttempts
    /\ gsession' = sess
    /\ gpc' = "connecting"
    /\ Arrive(G)
    /\ UNCHANGED <<gresponse, gfail>>
    /\ UNCHANGED handlerVars

\* await connectToDB() threw: the catch block answers
GetConnectFailed ==
    /\ gpc = "connecting"
    /\ pc[G] = "threw"
    /\ gpc' = "responded"
    /\ gfail' = "connect"
    /\ gresponse' = ListErrorResponse
    /\ UNCHANGED gsession
    /\ UNCHANGED <<cacheVars, handlerVars>>

\* await connectToDB() returned: the query runs, and fails or yields the
\* documents in an order the sort allows
GetConnected(findOk) ==
    /\ gpc = "connecting"
    /\ pc[G] = "returned"
    /\ gpc' = "responded"
    /\ UNCHANGED gsession
    /\ UNCHANGED <<cacheVars, handlerVars>>
    /\ IF findOk
       THEN /\ \E videos \in FindSorted(store) : gresponse' = ListResponse(videos)
            /\ UNCHANGED gfail
       ELSE /\ gresponse' = ListErrorResponse
            /\ gfail' = "find"

\* the response is sent; the handler is ready for the next request
GetEnd ==
    /\ gpc = "responded"
    /\ gpc' = "idle"
    /\ gsession' = NULL
    /\ gresponse' = NoResponse
    /\ gfail' = "none"
    /\ pc' = [pc EXCEPT ![G] = "idle"]
    /\ awaited' = [awaited EXCEPT ![G] = 0]
    /\ ret' = [ret EXCEPT ![G] = NULL]
    /\ started' = [started EXCEPT ![G] = FALSE]
    /\ early' = [early EXCEPT ![G] = FALSE]
    /\ UNCHANGED <<conn, promise, status, waiters, jobs, afterFail>>
    /\ UNCHANGED handlerVars

\* ------------------------------------------------------- models/User.ts
\* a value as mongoose receives it: a string or an object
Str(v) == [type |-> "string", value |-> v]
Obj(v) == [type |-> "object", value |-> v]

\* bcrypt.hash(password, 10): the hash carries its salt
Hash(password, salt) == <<"$2b$10", salt, password>>

\* a comparison that accepts every password
BcryptCompareAlways(password, hash) == TRUE

\* bcrypt.compare(password, hash): hash the password with the salt of hash
BcryptCompare(password, hash) == Hash(password, hash[2]) = hash

\* the emails and passwords a request may carry
Emails == {UNDEFINED, "", "not-an-email", "a@x.com", "b@x.com"}
Passwords == {UNDEFINED, "", "short", "s3cret1", "hunter22"}

\* the users the collection may hold when the process starts
StoredUsers ==
    {[email |-> "a@x.com", password |-> Hash("s3cret1", "salt1")],
     [email |-> "b@x.com", password |-> Hash("hunter22", "salt2")]}

\* User.findOne({ email })
FindUser(email) == {u \in users : u.email = email}

\* new User(doc) for each argument of User.create, then validation and
\* the pre("save") hook: an argument that is not an object throws
UserCreate(args, salt) ==
    IF \E i \in 1..Len(args) : args[i].type # "object"
    THEN [ok |-> FALSE, docs |-> {}]
    ELSE IF \E i \in 1..Len(args) :
               ~(Required(args[i].value.email) /\ Required(args[i].value.password))
    THEN [ok |-> FALSE, docs |-> {}]
    ELSE [ok |-> TRUE,
          docs |-> {[email |-> args[i].value.email,
                     password |-> Hash(args[i].value.password, salt)] : i \in 1..Len(args)}]

\* -------------------------------------- app/api/auth/register/route.ts POST
\* the caller of connectToDB that is the register handler
R == 3

\* z.string().email(), over the emails above
IsEmail(e) == e \in {"a@x.com", "b@x.com"}

\* z.string().min(6)
IsPassword(p) == p # UNDEFINED /\ Len(p) >= 6

\* registerSchema.safeParse({ email, password }).success
RegisterInputValid(in) == IsEmail(in.email) /\ IsPassword(in.password)

\* the arguments of User.create(email, password)
CreateArgs(in) == <<Str(in.email), Str(in.password)>>

NoInput == [email |-> UNDEFINED, password |-> UNDEFINED]
NoBodyYet == [status |-> 0, kind |-> "none"]

RegisterRespond(st, kind) ==
    /\ rpc' = "responded"
    /\ rresponse' = [status |-> st, kind |-> kind]

\* a registration request arrives: the input is parsed; invalid input is
\* answered at once, otherwise the next job calls connectToDB()
RegisterBegin(in) ==
    /\ rpc = "idle"
    /\ apc = "idle"
    /\ Len(status) < MaxAttempts
    /\ rinput' = in
    /\ UNCHANGED <<users, rfound, rfail, apc, via, lform, acreds, afail, aresult>>
    /\ IF ~RegisterInputValid(in)
       THEN /\ RegisterRespond(400, "invalid")
            /\ UNCHANGED cacheVars
       ELSE /\ rpc' = "connecting"
            /\ UNCHANGED rresponse
            /\ Arrive(R)

\* await connectToDB() threw: the catch block answers
RegisterConnectFailed ==
    /\ rpc = "connecting"
    /\ pc[R] = "threw"
    /\ RegisterRespond(400, "failed")
    /\ rfail' = "connect"
    /\ UNCHANGED <<users, rinput, rfound, apc, via, lform, acreds, afail, aresult>>
    /\ UNCHANGED cacheVars

\* await connectToDB() returned: findOne, then User.create
RegisterConnected(findOk, salt) ==
    /\ rpc = "connecting"
    /\ pc[R] = "returned"
    /\ UNCHANGED <<rinput, apc, via, lform, acreds, afail, aresult>>
    /\ UNCHANGED cacheVars
    /\ IF ~findOk
       THEN /\ RegisterRespond(400, "failed")
            /\ rfail' = "find"
            /\ UNCHANGED <<users, rfound>>
       ELSE IF FindUser(rinput.email) # {}
       THEN /\ RegisterRespond(400, "conflict")
            /\ rfound' = TRUE
            /\ UNCHANGED <<users, rfail>>
       ELSE LET res == UserCreate(CreateArgs(rinput), salt) IN
            /\ rfound' = FALSE
            /\ IF res.ok
               THEN /\ users' = users \cup res.docs
                    /\ RegisterRespond(200, "ok")
                    /\ UNCHANGED rfail
               ELSE /\ RegisterRespond(400, "failed")
                    /\ rfail' = "create"
                    /\ UNCHANGED users

\* the response is sent; the handler is ready for the next request
RegisterEnd ==
    /\ rpc = "responded"
    /\ rpc' = "idle"
    /\ rinput' = NoInput
    /\ rfound' = FALSE
    /\ rfail' = "none"
    /\ rresponse' = NoBodyYet
    /\ pc' = [pc EXCEPT ![R] = "idle"]
    /\ awaited' = [awaited EXCEPT ![R] = 0]
    /\ ret' = [ret EXCEPT ![R] = NULL]
    /\ started' = [started EXCEPT ![R] = FALSE]
    /\ early' = [early EXCEPT ![R] = FALSE]
    /\ UNCHANGED <<conn, promise, status, waiters, jobs, afterFail>>
    /\ UNCHANGED <<users, apc, via, lform, acreds, afail, aresult>>

\* ------------------------------------------- lib/auth.ts, app/login/page.tsx
\* the caller of connectToDB that is authorize
A == 4

\* the options handleSubmit hands to signIn("credentials", ...)
SignInOptions(form) == [emaiil |-> form.email, password |-> form.password]

\* the credentials authorize receives: what it reads of the submitted fields
CredentialsOf(fields) ==
    [email |-> IF "email" \in DOMAIN fields THEN fields.email ELSE UNDEFINED,
     password |-> IF "password" \in DOMAIN fields THEN fields.password ELSE UNDEFINED]

\* !credentials?.email || !credentials.password
CredentialsMissing(cr) == Falsy(cr.email) \/ Falsy(cr.password)

NoResult == [kind |-> "none", email |-> UNDEFINED, message |-> ""]
Failure(msg) == [kind |-> "error", email |-> UNDEFINED, message |-> msg]
Identity(u) == [kind |-> "identity", email |-> u.email, message |-> ""]

\* no registration and no sign-in is under way
AuthIdle ==
    /\ rpc = "idle"
    /\ rinput = NoInput
    /\ rfound = FALSE
    /\ rfail = "none"
    /\ rresponse = NoBodyYet
    /\ apc = "idle"
    /\ via = "direct"
    /\ lform = NoInput
    /\ acreds = NoInput
    /\ afail = "none"
    /\ aresult = NoResult

AuthInit == users = {} /\ AuthIdle

\* authorize(credentials) is entered: missing credentials throw at once,
\* otherwise the next job calls connectToDB()
AuthorizeBegin(cr) ==
    /\ apc = "idle"
    /\ rpc = "idle"
    /\ Len(status) < MaxAttempts
    /\ acreds' = cr
    /\ UNCHANGED <<users, rpc, rinput, rfound, rfail, rresponse, afail>>
    /\ IF CredentialsMissing(cr)
       THEN /\ apc' = "done"
            /\ aresult' = Failure("Email and password is required")
            /\ UNCHANGED cacheVars
       ELSE /\ apc' = "connecting"
            /\ UNCHANGED aresult
            /\ Arrive(A)

\* the credentials endpoint is called with credentials of the caller's making
AuthorizeDirect(cr) ==
    /\ AuthorizeBegin(cr)
    /\ via' = "direct"
    /\ UNCHANGED lform

\* LoginPage.handleSubmit: signIn with the fields of the form
LoginSubmit(form) ==
    /\ AuthorizeBegin(CredentialsOf(SignInOptions(form)))
    /\ via' = "form"
    /\ lform' = form

\* await connectToDB() threw: the catch block rethrows
AuthorizeConnectFailed ==
    /\ apc = "connecting"
    /\ pc[A] = "threw"
    /\ apc' = "done"
    /\ afail' = "connect"
    /\ aresult' = Failure("connection failed")
    /\ UNCHANGED <<users, rpc, rinput, rfound, rfail, rresponse, via, lform, acreds>>
    /\ UNCHANGED cacheVars

\* await connectToDB() returned: findOne, bcrypt.compare, the identity
AuthorizeConnected(findOk) ==
    /\ apc = "connecting"
    /\ pc[A] = "returned"
    /\ apc' = "done"
    /\ UNCHANGED <<users, rpc, rinput, rfound, rfail, rresponse, via, lform, acreds>>
    /\ UNCHANGED cacheVars
    /\ IF ~findOk
       THEN /\ afail' = "find"
            /\ aresult' = Failure("query failed")
       ELSE /\ UNCHANGED afail
            /\ IF FindUser(acreds.email) = {}
               THEN aresult' = Failure("User doesn't exist")
               ELSE \E u \in FindUser(acreds.email) :
                       IF ~BcryptCompare(acreds.password, u.password)
                       THEN aresult' = Failure("Invalid password")
                       ELSE aresult' = Identity(u)

\* the sign-in ended; the next one may start
AuthorizeEnd ==
    /\ apc = "done"
    /\ apc' = "idle"
    /\ via' = "direct"
    /\ lform' = NoInput
    /\ acreds' = NoInput
    /\ afail' = "none"
    /\ aresult' = NoResult
    /\ pc' = [pc EXCEPT ![A] = "idle"]
    /\ awaited' = [awaited EXCEPT ![A] = 0]
    /\ ret' = [ret EXCEPT ![A] = NULL]
    /\ started' = [started EXCEPT ![A] = FALSE]
    /\ early' = [early EXCEPT ![A] = FALSE]
    /\ UNCHANGED <<conn, promise, status, waiters, jobs, afterFail>>
    /\ UNCHANGED <<users, rpc, rinput, rfound, rfail, rresponse>>

\* ------------------------------------------------------------ middleware.ts
\* the path of the authorization endpoint FileUpload fetches, by segment
AuthEndpoint == <<"api", "auth", "imagekit-auth">>

\* config.matcher: "/((?!api|_next|favicon.ico).*)"
MatcherApplies(path) ==
    ~(path # <<>> /\ path[1] \in {"api", "_next", "favicon.ico"})

\* callbacks.authorized({ req, token })
Authorized(path, token) ==
    IF \/ (Len(path) >= 2 /\ path[1] = "api" /\ path[2] = "auth")
       \/ path = <<"register">>
       \/ path = <<"login">>
       \/ path = <<>>
       \/ (Len(path) >= 2 /\ path[1] = "api" /\ path[2] = "video")
    THEN TRUE
    ELSE token # NULL

\* whether a request reaches its route handler
MiddlewareAllows(path, token) == MatcherApplies(path) => Authorized(path, token)

\* ------------------------------------------- the upload authorization issuer
\* an issuer that signs for every requester
IssueToAnyone(identity) ==
    [kind |-> "credentials", token |-> "token", expire |-> "expire",
     signature |-> "signature", signed |-> TRUE]

\* issue(requesterIdentity): Unauthenticated without an identity, else the
\* signing collaborator's {token, expiry, signature}
IssueUploadAuthorization(identity) ==
    IF identity = NULL
    THEN [kind |-> "unauthenticated", token |-> UNDEFINED, expire |-> UNDEFINED,
          signature |-> UNDEFINED, signed |-> FALSE]
    ELSE [kind |-> "credentials", token |-> "token", expire |-> "expire",
          signature |-> "signature", signed |-> TRUE]

\* ------------------------------------------- components/providers.tsx
\* 100 * 1024 * 1024
MaxVideoBytes == 104857600

FileTypes == {UNDEFINED, "image", "video"}

\* the files a change event may carry: the major type of file.type, file.size
Files ==
    [major : {"image", "video", "audio"},
     size : {1, MaxVideoBytes - 1, MaxVideoBytes, MaxVideoBytes + 1}]

\* validateFile(file): "true", "undefined" (falls off the end) or "throws"
ValidateFile(ft, file) ==
    IF ft = "video"
    THEN IF file.major # "video" THEN "throws"
         ELSE IF file.size > MaxVideoBytes THEN "throws"
         ELSE "true"
    ELSE "undefined"

NoAuthData ==
    [kind |-> "none", token |-> UNDEFINED, expire |-> UNDEFINED, signature |-> UNDEFINED]

UploadInit ==
    /\ fileType = UNDEFINED
    /\ uploading = FALSE
    /\ uerror = ""
    /\ upc = "idle"
    /\ ufile = None
    /\ ustarted = FALSE
    /\ uidentity = NULL
    /\ authData = NoAuthData
    /\ signed = FALSE
    /\ uoutcome = "none"
    /\ reported = <<>>
    /\ succeeded = FALSE

\* Math.round((loaded / total) * 100), by long division so that no
\* intermediate product leaves the 32-bit range
Percent(loaded, total) ==
    LET q0 == loaded \div total
        r0 == loaded % total
        d1 == (10 * r0) \div total
        r1 == (10 * r0) % total
        d2 == (10 * r1) \div total
        r2 == (10 * r1) % total
    IN  100 * q0 + 10 * d1 + d2 + (IF 2 * r2 >= total THEN 1 ELSE 0)

\* catch { setError("Error authenticating user") } finally { setError("");
\* setUploading(false) }
CatchAndFinally ==
    /\ uerror' = ""
    /\ uploading' = FALSE
    /\ uoutcome' = "failed"
    /\ upc' = "finished"

\* the input changes: handleFileChange up to the fetch
SelectFile(ft, f, identity) ==
    /\ upc = "idle"
    /\ fileType' = ft
    /\ ufile' = f
    /\ uidentity' = identity
    /\ UNCHANGED <<authData, signed, uoutcome, reported, succeeded>>
    /\ IF f = None \/ ValidateFile(ft, f[1]) # "true"
       THEN /\ ustarted' = FALSE
            /\ UNCHANGED <<uploading, uerror, upc>>
       ELSE /\ ustarted' = TRUE
            /\ uploading' = TRUE
            /\ uerror' = ""
            /\ upc' = "fetching"

\* await fetch("/api/auth/imagekit-auth") and authRespone.json()
AuthFetched(netOk) ==
    /\ upc = "fetching"
    /\ UNCHANGED <<fileType, ufile, ustarted, uidentity, reported, succeeded>>
    /\ IF ~netOk
       THEN /\ CatchAndFinally
            /\ UNCHANGED <<authData, signed>>
       ELSE /\ MiddlewareAllows(AuthEndpoint, uidentity)
            /\ LET a == IssueUploadAuthorization(uidentity) IN
               /\ authData' = [kind |-> a.kind, token |-> a.token, expire |-> a.expire,
                               signature |-> a.signature]
               /\ signed' = a.signed
            /\ upc' = "uploading"
            /\ UNCHANGED <<uploading, uerror, uoutcome>>

\* the onProgress callback handed to upload: a progress event of the request
UploadProgress(loaded, computable, hasProp) ==
    /\ upc = "uploading"
    /\ authData.token # UNDEFINED
    /\ Len(reported) < MaxProgress
    /\ loaded <= ufile[1].size
    /\ computable /\ hasProp
    /\ reported' = Append(reported, Percent(loaded, ufile[1].size))
    /\ UNCHANGED <<fileType, uploading, uerror, upc, ufile, ustarted, uidentity, authData,
                   signed, uoutcome, succeeded>>

\* await upload({ file, ..., expire, token, signature }), then onSuccess
UploadDone(ok) ==
    /\ upc = "uploading"
    /\ UNCHANGED <<fileType, ufile, ustarted, uidentity, authData, signed, reported>>
    /\ IF ok /\ authData.token # UNDEFINED /\ authData.signature # UNDEFINED
             /\ authData.expire # UNDEFINED
       THEN /\ succeeded' = TRUE
            /\ uerror' = ""
            /\ uploading' = FALSE
            /\ uoutcome' = "ok"
            /\ upc' = "finished"
       ELSE /\ CatchAndFinally
            /\ UNCHANGED succeeded

\* the attempt is over; the input may change again
UploadEnd ==
    /\ upc = "finished"
    /\ upc' = "idle"
    /\ ufile' = None
    /\ ustarted' = FALSE
    /\ uidentity' = NULL
    /\ authData' = NoAuthData
    /\ signed' = FALSE
    /\ uoutcome' = "none"
    /\ reported' = <<>>
    /\ succeeded' = FALSE
    /\ UNCHANGED <<fileType, uploading, uerror>>

\* ------------------------------------------------------- specifications
appVars == <<handlerVars, listVars, authVars, uploadVars>>

vars == <<cacheVars, appVars>>

Init == CacheInit /\ HandlerInit /\ ListInit /\ AuthInit /\ UploadInit

\* the steps of the connection cache, the POST handler standing still
CallerArrives == (\E c \in Callers : Arrive(c)) /\ UNCHANGED appVars
CallJob == RunCall /\ UNCHANGED appVars
ResumeJob == RunResume /\ UNCHANGED appVars
AttemptFulfils == ConnectSucceeds /\ UNCHANGED appVars
AttemptRejects == ConnectFails /\ UNCHANGED appVars

\* the connection cache under any callers
Next ==
    \/ CallerArrives
    \/ CallJob
    \/ ResumeJob
    \/ AttemptFulfils
    \/ AttemptRejects

Spec == Init /\ [][Next]_vars

\* a request reaches the POST handler
PostArrives ==
    /\ gpc = "idle"
    /\ \E sess \in {NULL, "session"}, b \in Bodies : PostBegin(sess, b)
    /\ UNCHANGED <<listVars, authVars, uploadVars>>

\* await connectToDB() threw in the POST handler
PostFails == PostConnectFailed /\ UNCHANGED <<listVars, authVars, uploadVars>>

\* Video.create ran, its insert succeeding or failing
PostCreates == (\E ioOk \in BOOLEAN : PostConnected(ioOk)) /\ UNCHANGED <<listVars, authVars, uploadVars>>

\* the POST handler answered
PostEnds == PostEnd /\ UNCHANGED <<listVars, authVars, uploadVars>>

\* the POST handler, one request after another, over the connection cache
CreateNext ==
    \/ PostArrives
    \/ PostFails
    \/ PostCreates
    \/ PostEnds
    \/ CallJob
    \/ ResumeJob
    \/ AttemptFulfils
    \/ AttemptRejects

CreateSpec == Init /\ [][CreateNext]_vars

\* a GET request arrives
GetArrives == (\E sess \in {NULL, "session"} : GetBegin(sess)) /\ UNCHANGED <<authVars, uploadVars>>

\* await connectToDB() threw in the GET handler
GetFails == GetConnectFailed /\ UNCHANGED <<authVars, uploadVars>>

\* the GET handler answered
GetEnds == GetEnd /\ UNCHANGED <<authVars, uploadVars>>

\* the query of the GET handler ran
GetLists == (\E findOk \in BOOLEAN : GetConnected(findOk)) /\ UNCHANGED <<authVars, uploadVars>>

\* the requests that populate the collection: authenticated, all required
\* fields present
CompleteBodies ==
    {b \in Bodies : /\ b.title = "x" /\ b.description = "x"
                    /\ b.videoURL = "x" /\ b.thumbnailURL = "x"
                    /\ b.controls = None}

\* such a request reaches the POST handler
PostArrivesComplete ==
    /\ gpc = "idle"
    /\ \E b \in CompleteBodies : PostBegin("session", b)
    /\ UNCHANGED <<listVars, authVars, uploadVars>>

\* the video route, POST and GET requests one after another
ListNext ==
    \/ PostArrivesComplete
    \/ PostFails
    \/ PostCreates
    \/ PostEnds
    \/ GetArrives
    \/ GetFails
    \/ GetLists
    \/ GetEnds
    \/ CallJob
    \/ ResumeJob
    \/ AttemptFulfils
    \/ AttemptRejects

ListSpec == Init /\ [][ListNext]_vars

\* the steps of registration and sign-in, the video route standing still
Registers ==
    (\E in \in [email : Emails, password : Passwords] : RegisterBegin(in))
       /\ UNCHANGED <<handlerVars, listVars, uploadVars>>
RegisterFails == RegisterConnectFailed /\ UNCHANGED <<handlerVars, listVars, uploadVars>>
RegisterCreates ==
    (\E findOk \in BOOLEAN, salt \in {"salt1", "salt2"} : RegisterConnected(findOk, salt))
       /\ UNCHANGED <<handlerVars, listVars, uploadVars>>
RegisterEnds == RegisterEnd /\ UNCHANGED <<handlerVars, listVars, uploadVars>>
SignsInDirectly ==
    (\E cr \in [email : Emails, password : Passwords] : AuthorizeDirect(cr))
       /\ UNCHANGED <<handlerVars, listVars, uploadVars>>
SubmitsLoginForm ==
    (\E form \in [email : Emails \ {UNDEFINED}, password : Passwords \ {UNDEFINED}] :
        LoginSubmit(form))
       /\ UNCHANGED <<handlerVars, listVars, uploadVars>>
AuthorizeFails == AuthorizeConnectFailed /\ UNCHANGED <<handlerVars, listVars, uploadVars>>
AuthorizeChecks ==
    (\E findOk \in BOOLEAN : AuthorizeConnected(findOk)) /\ UNCHANGED <<handlerVars, listVars, uploadVars>>
AuthorizeEnds == AuthorizeEnd /\ UNCHANGED <<handlerVars, listVars, uploadVars>>

\* registration and sign-in, one request after another
AuthNext ==
    \/ Registers
    \/ RegisterFails
    \/ RegisterCreates
    \/ RegisterEnds
    \/ SignsInDirectly
    \/ SubmitsLoginForm
    \/ AuthorizeFails
    \/ AuthorizeChecks
    \/ AuthorizeEnds
    \/ CallJob
    \/ ResumeJob
    \/ AttemptFulfils
    \/ AttemptRejects

\* the steps of the FileUpload component, the server state standing still
Selects ==
    (\E ft \in FileTypes, f \in {None} \cup {Some(x) : x \in Files},
        identity \in {NULL, "token"} : SelectFile(ft, f, identity))
       /\ UNCHANGED <<cacheVars, handlerVars, listVars, authVars>>
FetchesAuthorization ==
    (\E netOk \in BOOLEAN : AuthFetched(netOk))
       /\ UNCHANGED <<cacheVars, handlerVars, listVars, authVars>>
ReportsProgress ==
    (\E loaded \in {0, 1, MaxVideoBytes \div 2, MaxVideoBytes}, computable, hasProp \in BOOLEAN :
        UploadProgress(loaded, computable, hasProp))
       /\ UNCHANGED <<cacheVars, handlerVars, listVars, authVars>>
Uploads ==
    (\E ok \in BOOLEAN : UploadDone(ok))
       /\ UNCHANGED <<cacheVars, handlerVars, listVars, authVars>>
UploadEnds == UploadEnd /\ UNCHANGED <<cacheVars, handlerVars, listVars, authVars>>

\* the FileUpload component, one change event after another
UploadNext ==
    \/ Selects
    \/ FetchesAuthorization
    \/ ReportsProgress
    \/ Uploads
    \/ UploadEnds

UploadSpec == Init /\ [][UploadNext]_vars

\* the users collection outlives the process: it starts with the users
\* registered before
AuthStart ==
    /\ CacheInit /\ HandlerInit /\ ListInit /\ UploadInit
    /\ users \in SUBSET StoredUsers
    /\ AuthIdle

AuthSpec == AuthStart /\ [][AuthNext]_vars

\* ---------------------------------------------------------------- types
TypeOK ==
    /\ conn \in {NULL, CONNECTION}
    /\ promise \in 0..Len(status)
    /\ Len(waiters) = Len(status)

\* ------------------------------------------------------- connection cache
\* a call of connectToDB runs its synchronous part in this step
CallRuns(c) == pc[c] = "scheduled" /\ pc'[c] # "scheduled"

\* a waiter runs its catch block in this step
FailureHandled(c) == pc[c] = "resumable" /\ pc'[c] = "threw"

\* C1: in every reachable state at most one connection attempt is in flight
\* (a new attempt is started only when no earlier attempt is unresolved).
AtMostOneInFlight == Cardinality(InFlight) <= 1

\* C2: the calls issued before the first attempt settles make exactly one
\* mongoose.connect between them, all await that attempt, and all end with
\* its outcome: all return when it fulfils, all throw when it rejects.
FirstWaveSharesOneAttempt ==
    /\ (status # <<>> /\ status[1] = "pending") => Len(status) = 1
    /\ Cardinality({c \in Callers : early[c] /\ started[c]}) <= 1
    /\ \A c \in Callers :
          early[c] =>
             /\ awaited[c] = 1
             /\ pc[c] \in {"awaiting", "resumable", "returned", "threw"}
             /\ pc[c] = "awaiting" => status[1] = "pending"
             /\ pc[c] = "returned" => status[1] = "fulfilled"
             /\ pc[c] = "threw" => status[1] = "rejected"
             /\ (status[1] = "pending") => (started[c] <=> waiters[1][1] = c)

\* C2 witness: three or more calls issued before the first attempt settled
\* have all thrown its failure
FirstWaveAllFailed ==
    /\ Cardinality({c \in Callers : early[c] /\ pc[c] = "threw"}) >= 3
    /\ Len(status) = 1

\* C3: a failed attempt throws in every caller that awaited it, the catch
\* block leaves cached.promise null and cached.conn unset, and the next call
\* after the catch block starts a fresh attempt.
FailureClearsAndNextCallRetries ==
    [][ /\ \A c \in Callers :
              (pc[c] = "resumable" /\ status[awaited[c]] = "rejected" /\ pc'[c] # pc[c])
                 => pc'[c] = "threw"
        /\ \A c \in Callers : FailureHandled(c) => (promise' = 0 /\ conn' = NULL)
        /\ \A c \in Callers :
              (afterFail /\ CallRuns(c))
                 => (Len(status') = Len(status) + 1 /\ started'[c]
                     /\ status'[awaited'[c]] = "pending") ]_vars

\* C4: every call that completes without failure returns the cached handle
ReturnsTheHandle ==
    \A c \in Callers : pc[c] = "returned" => (ret[c] = conn /\ ret[c] = CONNECTION)

\* C5: once cached.conn is populated it stays the same, no call starts a
\* connection attempt again, and every later call returns it at once.
HandleIsPermanent ==
    [][ conn # NULL =>
          /\ conn' = conn
          /\ Len(status') = Len(status)
          /\ \A c \in Callers :
                CallRuns(c) => (pc'[c] = "returned" /\ ret'[c] = conn) ]_vars

\* C5 witness: a call that ran after the handle was populated returned it
LaterCallGotHandle ==
    \E c \in Callers : pc[c] = "returned" /\ awaited[c] = 0 /\ ret[c] = CONNECTION

\* ------------------------------------------------------- asset registrar
\* one of title, description, videoURL, thumbnailURL is empty or missing
SomeRequiredMissing(b) ==
    \E f \in {"title", "description", "videoURL", "thumbnailURL"} : b[f] \in {UNDEFINED, ""}

\* the request in hand comes with a session
Authenticated == hpc # "idle" /\ session # NULL

\* C6: an authenticated create() with a required field empty or missing
\* answers 400 (missing fields) and writes no record (stated for requests
\* whose connection acquisition succeeded).
MissingFieldIsValidationFailure ==
    (Authenticated /\ hpc = "responded" /\ pc[H] = "returned" /\ SomeRequiredMissing(body))
       => (response = 400 /\ written = None)

\* C7: for a candidate with a missing required field no connection
\* acquisition is made before the 400 answer, so the answer is 400 whatever
\* the state of the backend.
ValidationBeforeAnyIO ==
    (Authenticated /\ SomeRequiredMissing(body))
       => /\ pc[H] \in {"idle", "scheduled"}
          /\ hpc = "responded" => response = 400

\* C8: without a session create() answers 401 for every candidate, without
\* calling connectToDB, and leaves the store and the connection cache as
\* they were.
UnauthenticatedIsRejectedFirst ==
    /\ [](( hpc # "idle" /\ session = NULL )
            => (hpc = "responded" /\ response = 401 /\ written = None /\ pc[H] = "idle"))
    /\ [][ (hpc = "idle" /\ hpc' # "idle" /\ session' = NULL)
              => (UNCHANGED cacheVars /\ store' = store /\ response' = 401) ]_vars

\* C8 witness: a complete candidate without a session was answered 401
\* while the store already held a record
ValidCandidateRejected401 ==
    /\ hpc = "responded" /\ session = NULL /\ response = 401
    /\ ~SomeRequiredMissing(body)
    /\ store # <<>>

\* the quality the claim expects to be persisted
Clamped(q) == IF q = None THEN 100 ELSE IF q[1] > 100 THEN 100 ELSE IF q[1] < 1 THEN 1 ELSE q[1]

\* the quality the request supplied (None when absent)
Supplied(b) == IF b.transformations = None THEN None ELSE b.transformations[1].quality

\* the create of an otherwise valid candidate that reached Video.create and
\* met no store failure
ValidCreateDone ==
    /\ Authenticated /\ hpc = "responded" /\ pc[H] = "returned"
    /\ ~SomeRequiredMissing(body)
    /\ createError # "io"

DimensionsAreFixed ==
    /\ \A i \in 1..Len(store) : store[i].height = 1920 /\ store[i].width = 1080
    /\ written # None => (written[1].height = 1920 /\ written[1].width = 1080)

\* C10 witness: a candidate that supplied 720x1280 was persisted
SuppliedDimensionsPersisted ==
    /\ hpc = "responded" /\ response = 200 /\ written # None
    /\ body.transformations # None
    /\ body.transformations[1].height = 720

\* ------------------------------------------------------------- listing
\* the GET handler answered with a listing
Listed == gpc = "responded" /\ gresponse.kind = "list"

\* C11: list() returns the assets most-recent-first: of two returned
\* assets the one created later comes earlier.
ListedMostRecentFirst ==
    Listed =>
       \A i, j \in 1..Len(gresponse.videos) :
           i < j => gresponse.videos[i].createdAt > gresponse.videos[j].createdAt

\* C12: a connectivity or store failure during list() never yields a
\* success status, and a listing (the empty one included) is answered only
\* when the store was reached.
ListFailureIsNotSuccess ==
    /\ (gpc = "responded" /\ gfail # "none")
          => ~(gresponse.status >= 200 /\ gresponse.status <= 299)
    /\ Listed => gfail = "none"
    /\ (Listed /\ gresponse.videos = <<>>) => store = <<>>

\* C13: list() on an empty store that was reached answers the empty
\* sequence with status 200, whether or not the request has a session.
EmptyStoreListsEmpty ==
    (gpc = "responded" /\ gfail = "none" /\ store = <<>>)
       => /\ gresponse.status = 200
          /\ gresponse.kind = "list"
          /\ gresponse.videos = <<>>

\* C13 witness: a request without a session got the empty listing
AnonymousGotEmptyList ==
    /\ gpc = "responded" /\ gsession = NULL /\ store = <<>>
    /\ gresponse = [status |-> 200, kind |-> "list", videos |-> <<>>]

\* C17: the catch block of a waiter never resets cached.promise while it
\* holds a fresh attempt, still in flight, that the waiter did not await.
CleanupOnlyClearsOwnAttempt ==
    [][ \A c \in Callers :
           (FailureHandled(c) /\ promise # 0 /\ promise # awaited[c]
              /\ status[promise] = "pending")
              => promise' = promise ]_vars

\* -------------------------------------------- registration and sign-in
\* the registration in hand has a well-formed email and a password of six
\* characters or more, and the store was reached
ValidRegistrationDone ==
    /\ rpc = "responded"
    /\ rinput.email \in {"a@x.com", "b@x.com"}
    /\ rinput.password # UNDEFINED /\ Len(rinput.password) >= 6
    /\ rfail \notin {"connect", "find"}

\* C15: register with a valid, not yet registered email succeeds and stores
\* exactly one user for it; register with a registered email answers
\* Conflict and stores no second user; there is at most one user per email.
RegisterOncePerEmail ==
    /\ (ValidRegistrationDone /\ ~rfound)
          => (rresponse.kind = "ok" /\ Cardinality(FindUser(rinput.email)) = 1)
    /\ (ValidRegistrationDone /\ rfound)
          => (rresponse.kind = "conflict" /\ Cardinality(FindUser(rinput.email)) = 1)
    /\ \A u, v \in users : u.email = v.email => u = v

\* the stored user whose email and secret are e and p
Matching(e, p) == {u \in users : u.email = e /\ u.password[3] = p}

\* C16: authorize ends with an identity only for the email of a stored user
\* and the secret of that user's hash; a wrong secret, an unknown email and
\* a missing email or secret end with a failure, the last before any call
\* of connectToDB.
VerifyOnlyMatchingSecret ==
    apc = "done" =>
       /\ aresult.kind \in {"identity", "error"}
       /\ aresult.kind = "identity" =>
             \E u \in Matching(acreds.email, acreds.password) : aresult.email = u.email
       /\ Matching(acreds.email, acreds.password) = {} => aresult.kind = "error"
       /\ (acreds.email \in {UNDEFINED, ""} \/ acreds.password \in {UNDEFINED, ""})
             => (aresult.kind = "error" /\ pc[A] = "idle" /\ awaited[A] = 0)

\* C16 witness: authorize returned the identity of a stored user
IdentityReturned ==
    /\ apc = "done" /\ via = "direct" /\ aresult.kind = "identity"
    /\ Matching(acreds.email, acreds.password) # {}

\* C18: a registered user who submits the right email and password through
\* the login form reaches authorize with these credentials and ends with an
\* identity (the store being reachable).
LoginFormAuthenticates ==
    (apc = "done" /\ via = "form" /\ afail = "none"
        /\ Matching(lform.email, lform.password) # {})
       => /\ acreds.email = lform.email
          /\ acreds.password = lform.password
          /\ aresult.kind = "identity"

\* --------------------------------------------------------------- upload
\* C14: a requester without an identity gets Unauthenticated from the
\* authorization endpoint, the signing collaborator is not called, and no
\* token, expiry or signature is handed over.
NoCredentialsWithoutIdentity ==
    (upc \in {"uploading", "finished"} /\ uidentity = NULL /\ authData.kind # "none")
       => /\ authData.kind = "unauthenticated"
          /\ ~signed
          /\ authData.token = UNDEFINED
          /\ authData.expire = UNDEFINED
          /\ authData.signature = UNDEFINED

\* C14 witness: the endpoint answered a requester without an identity
AnonymousWasRefused ==
    /\ upc = "uploading" /\ uidentity = NULL
    /\ authData.kind = "unauthenticated"

\* the file of the change event is one the component is meant to upload:
\* any file for "image" or an unset fileType, a video under 100 MB for "video"
SupportedSelection ==
    /\ ufile # None
    /\ \/ fileType \in {UNDEFINED, "image"}
       \/ (fileType = "video" /\ ufile[1].major = "video" /\ ufile[1].size < MaxVideoBytes)

\* C19: selecting a file starts an upload for every supported fileType, and
\* onSuccess is called when the upload succeeds.
SelectionStartsUpload ==
    /\ SupportedSelection => ustarted
    /\ (SupportedSelection /\ uoutcome = "ok") => succeeded

\* C20: after an attempt the uploading flag is false; a failed attempt leaves
\* a non-empty error message and no call of onSuccess; a successful one
\* leaves the error message empty.
AttemptLeavesErrorState ==
    upc = "finished" =>
       /\ uploading = FALSE
       /\ uoutcome = "failed" => (uerror # "" /\ ~succeeded)
       /\ uoutcome = "ok" => uerror = ""

====
